---------------------------- MODULE Spec2Model ----------------------------
(***************************************************************************)
(* Speedy2D on the miniquad backend: the window/event shell                *)
(* (src/src/window_internal_quad.rs) and the frame-scoped drawing surface  *)
(* (src/src/lib.rs).                                                       *)
(*                                                                         *)
(* The loop thread is the backend's frame loop: per tick it dispatches the *)
(* pending input events to Stage's handlers, then calls Stage::update,     *)
(* then Stage::draw.  Producer threads post user events through clones of  *)
(* the mpsc Sender.  Variables named after fields of the source are the    *)
(* program's state; the others record what the handler has been told, so   *)
(* that properties over a run can be written as state predicates.          *)
(***************************************************************************)
EXTENDS Integers, Sequences, FiniteSets, TLC

(* ------------------------------ bounds -------------------------------- *)

\* events each producer thread sends
MaxSend == 3
\* backend input events dispatched in one tick
MaxInput == 2
\* Graphics2D / WindowHelper calls the handler makes in one on_draw
MaxOps == 3

Producers == {"p1", "p2"}

\* what the backend can report
DpiScales == {1, 2}
InitialScreen == <<1200, 1200>>
ScreenSizes == {<<1200, 1200>>, <<801, 601>>}
KeyCodes == {"A", "Enter", "CapsLock", "World1", "Unknown"}
LoopKeyCodes == {"A"}
MouseButtons == {"Left", "Right", "Middle", "Unknown"}
\* mouse positions, in physical pixels
MousePositions == {<<3, 5>>, <<801, 600>>}

\* arguments the handler draws with
Colors == {"RED", "BLUE"}
TriangleA == << <<0, 0>>, <<10, 0>>, <<10, 10>> >>
QuadA == << <<0, 0>>, <<10, 0>>, <<10, 10>>, <<0, 10>> >>
FourColors == { <<"RED", "RED", "RED", "RED">>, <<"RED", "BLUE", "RED", "BLUE">> }

VARIABLES
    \* position of the loop thread
    loopState,          \* "Created" until run_loop's start closure has run,
                        \* "Stopped" once the backend's loop has returned
    phase,              \* "idle" | "input" | "draw" | "in_frame"
    inputCount,         \* input events dispatched in this tick
    opCount,            \* calls the handler made in this on_draw
    panicked,           \* a panic unwound through the loop: the process is gone
    \* WindowHelperQuad
    redraw_requested,
    terminate_requested,
    \* backend window
    screen,             \* miniquad::window::screen_size(), physical pixels
    dpi,                \* miniquad::window::dpi_scale()
    \* mpsc channel
    user_events,        \* messages in flight, oldest first
    sent,               \* per producer: send_event calls so far
    sendResult,         \* the last send_event call: what it returned, and
                        \* whether the Receiver was already dropped
    \* QuadGl and the GPU backend
    gl_draw_calls,      \* batches accumulated by QuadGl, in creation order
    gpu,                \* backend calls of the current (or last) frame
    \* record of the run
    delivered,          \* user events passed to on_user_event, in order
    submitted,          \* primitives handed to QuadGl in this frame
    openFrames,         \* begin_frame calls not yet matched by end_frame
    lastOp,             \* the handler's last call in on_draw and what it emitted
    lastResult,         \* how that call ended: "unit" | "Ok" | "Err" | "panic"
    clipRequested,      \* the argument of the frame's last set_clip call
    drewBefore,         \* a frame that has been closed held primitives
    lastCb,             \* the last handler callback of this tick
    firstCb,            \* the first handler callback of the run
    startCount,         \* on_start invocations
    startInfo,          \* the WindowStartupInfo given to on_start
    resizedThisTick,    \* a resize event was dispatched in this tick
    redrawAtDraw,       \* redraw_requested when Stage::draw was entered
    termBefore,         \* terminate_loop was called during an earlier tick
    termAt,             \* the callback of this tick that first called terminate_loop
    ran,                \* phases of this tick that have executed
    qAtStart,           \* user events in the channel when this tick started
    drained,            \* user events delivered in this tick (both kept until
                        \* the tick's draw begins)
    lastInput           \* the backend input event being dispatched

loopVars == <<loopState, phase, inputCount, opCount, panicked>>
helperVars == <<redraw_requested, terminate_requested>>
windowVars == <<screen, dpi>>
channelVars == <<user_events, sent, sendResult, delivered>>
gfxVars == <<gl_draw_calls, gpu, submitted, openFrames, lastOp, lastResult,
            clipRequested, drewBefore>>
histVars == <<lastCb, firstCb, startCount, startInfo, resizedThisTick,
              redrawAtDraw, termBefore, termAt, ran>>
tickVars == <<qAtStart, drained, lastInput>>
vars == <<loopVars, helperVars, windowVars, channelVars, gfxVars, histVars,
          tickVars>>

NoOp == [name |-> "none", pos |-> <<>>, col |-> <<>>, emitted |-> <<>>]
NoCb == [name |-> "none", arg |-> <<>>]
NoInput == [kind |-> "none", code |-> "none", pos |-> <<>>]
NoClip == [some |-> FALSE, rect |-> <<>>]

Last(s) == s[Len(s)]
Front(s) == SubSeq(s, 1, Len(s) - 1)

(* --------------------------- WindowHelperQuad ------------------------- *)

\* request_redraw: self.redraw_requested.set(true)
request_redraw_toggle(flag) == ~flag
request_redraw(flag) == TRUE

\* terminate_loop: self.terminate_requested = true
terminate_loop_toggle(flag) == ~flag
terminate_loop(flag) == TRUE

\* get_event_loop_action: Exit iff terminate_requested
get_event_loop_action(flag) == IF flag THEN "Exit" ELSE "Continue"

\* set_icon_from_rgba_pixels: the body is Ok(()); neither argument is read
set_icon_from_rgba_pixels(data_len, size) == "Ok"

\* set_cursor_grab: the body is panic!()
set_cursor_grab(grabbed) == "panic"

\* RefCell::borrow_mut on the Rc<RefCell<GLRenderer>> that run_loop gives to
\* both the helper and the DrawingWindowHandler: a RefMut, or a panic
\* (BorrowMutError) when a RefMut is outstanding
RefCell_borrow_mut(borrowed) == IF borrowed THEN "panic" ELSE "RefMut"

\* create_font_from_bytes: self.renderer.borrow_mut().create_font_from_bytes(..)
create_font_from_bytes(borrowed) ==
    IF RefCell_borrow_mut(borrowed) = "panic" THEN "panic" ELSE "Ok"

\* the control-handle calls a handler callback may make
HelperCalls == SUBSET {"request_redraw", "terminate_loop"}
\* a handler that calls nothing
Passive == {{}}

\* the body of a handler callback: it makes the calls in `calls`
Handler(cb, arg, calls) ==
    /\ redraw_requested' = IF "request_redraw" \in calls
                           THEN request_redraw(redraw_requested)
                           ELSE redraw_requested
    /\ terminate_requested' = IF "terminate_loop" \in calls
                              THEN terminate_loop(terminate_requested)
                              ELSE terminate_requested
    /\ termAt' = IF termAt = "none" /\ "terminate_loop" \in calls THEN cb ELSE termAt
    /\ lastCb' = [name |-> cb, arg |-> arg]
    /\ firstCb' = IF firstCb = "none" THEN cb ELSE firstCb

(* ------------------------------- channel ------------------------------ *)

\* Sender::send: the message joins the tail of the channel
Sender_send_lifo(q, e) == <<e>> \o q
Sender_send(q, e) == Append(q, e)

\* Receiver::try_recv: the oldest message, or Err when the channel is empty
try_recv_peek(q) ==
    IF q = <<>> THEN [ok |-> FALSE, val |-> <<>>, rest |-> q]
    ELSE [ok |-> TRUE, val |-> Head(q), rest |-> q]
try_recv(q) ==
    IF q = <<>> THEN [ok |-> FALSE, val |-> <<>>, rest |-> q]
    ELSE [ok |-> TRUE, val |-> Head(q), rest |-> Tail(q)]

\* UserEventSenderQuad::send_event, on a producer thread.  The only senders
\* are clones handed out by WindowHelperQuad::create_user_event_sender, which
\* a handler can reach from on_start on.
\* While the Stage holds the Receiver the message is enqueued; once the Stage
\* is dropped Sender::send returns Err(SendError).  Either way the result of
\* send is discarded and send_event returns Ok(()).
send_event(p) ==
    /\ loopState \in {"Running", "Stopped"}
    /\ ~panicked
    /\ sent[p] < MaxSend
    /\ user_events' = IF loopState = "Running"
                      THEN Sender_send(user_events, [src |-> p, n |-> sent[p] + 1])
                      ELSE user_events
    /\ sent' = [sent EXCEPT ![p] = @ + 1]
    /\ sendResult' = [ret |-> "Ok", disconnected |-> loopState = "Stopped"]
    /\ UNCHANGED <<loopVars, helperVars, windowVars, delivered, gfxVars, histVars,
                   tickVars>>

(* ------------------------------- run_loop ----------------------------- *)

\* WindowQuad::run_loop, the closure given to miniquad::start: the channel and
\* the helper are created, on_start is called, then the Stage is handed over.
RunLoopBody(C, callsOnStart) ==
    /\ loopState = "Created"
    /\ ~panicked
    /\ loopState' = "Running"
    /\ \E calls \in C :
         IF callsOnStart
         THEN /\ Handler("on_start", <<screen, dpi>>, calls)
              /\ startCount' = startCount + 1
              /\ startInfo' = [size |-> screen, scale |-> dpi]
         ELSE UNCHANGED <<helperVars, termAt, lastCb, firstCb,
                          startCount, startInfo>>
    /\ UNCHANGED <<phase, inputCount, opCount, panicked, windowVars, channelVars,
                   gfxVars, resizedThisTick, redrawAtDraw, termBefore,
                   ran, tickVars>>

run_loop_without_start(C) == RunLoopBody(C, FALSE)
run_loop(C) == RunLoopBody(C, TRUE)

(* -------------------------------- ticks ------------------------------- *)

\* the backend begins a frame: pending input events are dispatched first
TickStart ==
    /\ loopState = "Running"
    /\ ~panicked
    /\ phase = "idle"
    /\ phase' = "input"
    /\ inputCount' = 0
    /\ resizedThisTick' = FALSE
    /\ termAt' = "none"
    /\ ran' = {}
    /\ lastCb' = NoCb
    /\ gpu' = <<>>
    /\ submitted' = <<>>
    /\ UNCHANGED <<loopState, opCount, panicked, helperVars, windowVars,
                   channelVars, gl_draw_calls, openFrames, lastOp, lastResult,
                   clipRequested, drewBefore, firstCb, startCount, startInfo,
                   redrawAtDraw>>
    /\ termBefore' = (termBefore \/ (termAt # "none" /\ "present" \in ran))
    /\ qAtStart' = Len(user_events)
    /\ drained' = 0
    /\ lastInput' = NoInput

InputGuard ==
    /\ loopState = "Running"
    /\ ~panicked
    /\ phase = "input"
    /\ inputCount < MaxInput

\* (width / dpi) as u32, (height / dpi) as u32: the quotient of two
\* non-negative floats, cast to u32 by dropping the fraction
logical_size_rounded(size, d) ==
    <<(2 * size[1] + d) \div (2 * d), (2 * size[2] + d) \div (2 * d)>>
logical_size(size, d) == <<size[1] \div d, size[2] \div d>>

\* WindowHelperQuad::get_size_pixels: the screen size divided by the DPI
\* scale, each component cast to u32
get_size_pixels(size, d) == logical_size(size, d)

\* Stage::resize_event: on_resize with the size divided by the DPI scale,
\* each component cast to u32
resize_event ==
    /\ InputGuard
    /\ \E size \in ScreenSizes, calls \in HelperCalls :
         /\ screen' = size
         /\ Handler("on_resize", logical_size(size, dpi), calls)
    /\ inputCount' = inputCount + 1
    /\ resizedThisTick' = TRUE
    /\ lastInput' = [kind |-> "resize", code |-> "none", pos |-> <<>>]
    /\ UNCHANGED <<loopState, phase, opCount, panicked, dpi, channelVars, gfxVars,
                   startCount, startInfo, redrawAtDraw, termBefore,
                   ran, qAtStart, drained>>

\* impl From<miniquad::KeyCode> for VirtualKeyCode: the arms of the match
KeyTable ==
    [
      Key1 |-> "Key1", Key2 |-> "Key2", Key3 |-> "Key3", Key4 |-> "Key4",
      Key5 |-> "Key5", Key6 |-> "Key6", Key7 |-> "Key7", Key8 |-> "Key8",
      Key9 |-> "Key9", Key0 |-> "Key0", A |-> "A", B |-> "B", C |-> "C",
      D |-> "D", E |-> "E", F |-> "F", G |-> "G", H |-> "H", I |-> "I",
      J |-> "J", K |-> "K", L |-> "L", M |-> "M", N |-> "N", O |-> "O",
      P |-> "P", Q |-> "Q", R |-> "R", S |-> "S", T |-> "T", U |-> "U",
      V |-> "V", W |-> "W", X |-> "X", Y |-> "Y", Z |-> "Z",
      Escape |-> "Escape", F1 |-> "F1", F2 |-> "F2", F3 |-> "F3",
      F4 |-> "F4", F5 |-> "F5", F6 |-> "F6", F7 |-> "F7", F8 |-> "F8",
      F9 |-> "F9", F10 |-> "F10", F11 |-> "F11", F12 |-> "F12",
      F13 |-> "F13", F14 |-> "F14", F15 |-> "F15", F16 |-> "F16",
      F17 |-> "F17", F18 |-> "F18", F19 |-> "F19", F20 |-> "F20",
      F21 |-> "F21", F22 |-> "F22", F23 |-> "F23", F24 |-> "F24",
      Pause |-> "PauseBreak", Insert |-> "Insert", Home |-> "Home",
      Delete |-> "Delete", End |-> "End", PageDown |-> "PageDown",
      PageUp |-> "PageUp", Left |-> "Left", Up |-> "Up", Right |-> "Right",
      Down |-> "Down", Backspace |-> "Backspace", Enter |-> "Return",
      Space |-> "Space", Kp0 |-> "Numpad0", Kp1 |-> "Numpad1",
      Kp2 |-> "Numpad2", Kp3 |-> "Numpad3", Kp4 |-> "Numpad4",
      Kp5 |-> "Numpad5", Kp6 |-> "Numpad6", Kp7 |-> "Numpad7",
      Kp8 |-> "Numpad8", Kp9 |-> "Numpad9", KpAdd |-> "NumpadAdd",
      KpDivide |-> "NumpadDivide", KpDecimal |-> "NumpadDecimal",
      KpEnter |-> "NumpadEnter", KpEqual |-> "NumpadEquals",
      KpMultiply |-> "NumpadMultiply", KpSubtract |-> "NumpadSubtract",
      Apostrophe |-> "Apostrophe", Backslash |-> "Backslash",
      Comma |-> "Comma", Equal |-> "Equals", GraveAccent |-> "Grave",
      LeftAlt |-> "LAlt", LeftBracket |-> "LBracket",
      LeftControl |-> "LControl", LeftShift |-> "LShift",
      Minus |-> "Minus", Period |-> "Period", RightAlt |-> "RAlt",
      RightBracket |-> "RBracket", RightControl |-> "RControl",
      RightShift |-> "RShift", Semicolon |-> "Semicolon",
      Slash |-> "Slash", Tab |-> "Tab", CapsLock |-> "Wake",
      World1 |-> "Wake", World2 |-> "Wake", ScrollLock |-> "Wake",
      NumLock |-> "Wake", PrintScreen |-> "Wake", F25 |-> "Wake",
      LeftSuper |-> "Wake", RightSuper |-> "Wake", Menu |-> "Wake",
      Unknown |-> "Wake"
    ]

\* the canonical key codes: every VirtualKeyCode the match names, in an arm
\* or in a commented-out arm
VirtualKeyCode ==
    {
      "Key1", "Key2", "Key3", "Key4", "Key5", "Key6", "Key7", "Key8",
      "Key9", "Key0", "A", "B", "C", "D", "E", "F", "G", "H", "I", "J",
      "K", "L", "M", "N", "O", "P", "Q", "R", "S", "T", "U", "V", "W", "X",
      "Y", "Z", "Escape", "F1", "F2", "F3", "F4", "F5", "F6", "F7", "F8",
      "F9", "F10", "F11", "F12", "F13", "F14", "F15", "F16", "F17", "F18",
      "F19", "F20", "F21", "F22", "F23", "F24", "PrintScreen",
      "ScrollLock", "PauseBreak", "Insert", "Home", "Delete", "End",
      "PageDown", "PageUp", "Left", "Up", "Right", "Down", "Backspace",
      "Return", "Space", "Compose", "Caret", "Numlock", "Numpad0",
      "Numpad1", "Numpad2", "Numpad3", "Numpad4", "Numpad5", "Numpad6",
      "Numpad7", "Numpad8", "Numpad9", "NumpadAdd", "NumpadDivide",
      "NumpadDecimal", "NumpadComma", "NumpadEnter", "NumpadEquals",
      "NumpadMultiply", "NumpadSubtract", "AbntC1", "AbntC2", "Apostrophe",
      "Apps", "Asterisk", "At", "Ax", "Backslash", "Calculator", "Capital",
      "Colon", "Comma", "Convert", "Equals", "Grave", "Kana", "Kanji",
      "LAlt", "LBracket", "LControl", "LShift", "LWin", "Mail",
      "MediaSelect", "MediaStop", "Minus", "Mute", "MyComputer",
      "NavigateForward", "NavigateBackward", "NextTrack", "NoConvert",
      "OEM102", "Period", "PlayPause", "Plus", "Power", "PrevTrack",
      "RAlt", "RBracket", "RControl", "RShift", "RWin", "Semicolon",
      "Slash", "Sleep", "Stop", "Sysrq", "Tab", "Underline", "Unlabeled",
      "VolumeDown", "VolumeUp", "Wake", "WebBack", "WebFavorites",
      "WebForward", "WebHome", "WebRefresh", "WebSearch", "WebStop", "Yen",
      "Copy", "Paste", "Cut"
    }

VirtualKeyCode_from_partial(keycode) ==
    IF keycode = "Unknown" THEN "unmapped" ELSE KeyTable[keycode]
VirtualKeyCode_from(keycode) == KeyTable[keycode]

\* impl From<miniquad::MouseButton> for MouseButton
MouseButton_from(button) ==
    CASE button = "Left" -> "Left"
      [] button = "Right" -> "Right"
      [] button = "Middle" -> "Middle"
      [] button = "Unknown" -> "Other(0)"

\* Stage::key_down_event: on_key_down with the mapped key code
key_down_event(K, C) ==
    /\ InputGuard
    /\ \E keycode \in K, calls \in C :
         /\ Handler("on_key_down", VirtualKeyCode_from(keycode), calls)
         /\ lastInput' = [kind |-> "key_down", code |-> keycode, pos |-> <<>>]
    /\ inputCount' = inputCount + 1
    /\ UNCHANGED <<loopState, phase, opCount, panicked, windowVars, channelVars,
                   gfxVars, startCount, startInfo, resizedThisTick, redrawAtDraw,
                   termBefore,
                   ran, qAtStart, drained>>

\* Stage::key_up_event: the body is empty, no callback is made
key_up_event(K) ==
    /\ InputGuard
    /\ inputCount' = inputCount + 1
    /\ \E keycode \in K :
         lastInput' = [kind |-> "key_up", code |-> keycode, pos |-> <<>>]
    /\ UNCHANGED <<loopState, phase, opCount, panicked, helperVars, windowVars,
                   channelVars, gfxVars, histVars, qAtStart, drained>>

\* Stage::mouse_button_down_event: on_mouse_button_down with the mapped
\* button; this callback of the handler calls nothing on the control handle
mouse_button_down_event ==
    /\ InputGuard
    /\ \E button \in MouseButtons :
         /\ Handler("on_mouse_button_down", MouseButton_from(button), {})
         /\ lastInput' = [kind |-> "mouse_button_down", code |-> button,
                          pos |-> <<>>]
    /\ inputCount' = inputCount + 1
    /\ UNCHANGED <<loopState, phase, opCount, panicked, windowVars, channelVars,
                   gfxVars, startCount, startInfo, resizedThisTick, redrawAtDraw,
                   termBefore, ran, qAtStart, drained>>

\* a / d in f32, for the quotients that f32 holds exactly: the fraction in
\* lowest terms, <<numerator, denominator>>
RECURSIVE Gcd(_, _)
Gcd(a, b) == IF b = 0 THEN a ELSE Gcd(b, a % b)
f32_div(a, d) == <<a \div Gcd(a, d), d \div Gcd(a, d)>>

\* Vec2::new(x / dpi, y / dpi)
logical_position_truncated(position, d) ==
    << <<position[1] \div d, 1>>, <<position[2] \div d, 1>> >>
logical_position(position, d) ==
    <<f32_div(position[1], d), f32_div(position[2], d)>>

\* Stage::mouse_motion_event: on_mouse_move with the position divided by the
\* DPI scale; this callback of the handler calls nothing on the control
\* handle.  (Stage::raw_mouse_motion has an empty body.)
mouse_motion_event ==
    /\ InputGuard
    /\ \E position \in MousePositions :
         /\ Handler("on_mouse_move", logical_position(position, dpi), {})
         /\ lastInput' = [kind |-> "mouse_motion", code |-> "none",
                          pos |-> position]
    /\ inputCount' = inputCount + 1
    /\ UNCHANGED <<loopState, phase, opCount, panicked, windowVars, channelVars,
                   gfxVars, startCount, startInfo, resizedThisTick, redrawAtDraw,
                   termBefore, ran, qAtStart, drained>>

\* Stage::update: one try_recv; an event received goes to on_user_event
\* (mode "poll"; the other modes are a loop that leaves the tick as soon as
\* termination is requested, a loop that waits in recv for an event, and an
\* update that the backend also calls once the frame has been presented)
UpdateBody(C, mode) ==
    /\ loopState = "Running"
    /\ ~panicked
    /\ \/ phase = "input"
       \/ mode = "late" /\ phase = "idle" /\ "present" \in ran
    /\ mode = "block" => user_events # <<>>
    /\ LET r == try_recv(user_events) IN
         /\ user_events' = r.rest
         /\ IF r.ok
            THEN /\ \E calls \in C : Handler("on_user_event", r.val, calls)
                 /\ delivered' = Append(delivered, r.val)
                 /\ drained' = drained + 1
            ELSE /\ lastCb' = NoCb
                 /\ UNCHANGED <<helperVars, termAt, firstCb, delivered, drained>>
    /\ phase' = IF phase = "idle" \/ (mode = "exit_on_terminate"
                                           /\ terminate_requested')
                THEN "idle" ELSE "draw"
    /\ ran' = ran \cup {"update"}
    /\ lastInput' = NoInput
    /\ UNCHANGED <<loopState, inputCount, opCount, panicked, windowVars, sent,
                   sendResult, gfxVars, startCount, startInfo, resizedThisTick,
                   redrawAtDraw, termBefore, qAtStart>>

update_exit_on_terminate(C) == UpdateBody(C, "exit_on_terminate")
update_blocking(C) == UpdateBody(C, "block")
update_after_present(C) == UpdateBody(C, "late")
update(C) == UpdateBody(C, "poll")

(* -------------------- QuadGl and the shape builders -------------------- *)

\* a Draw Primitive: three positions, three colors, the texture it samples
Tri(ps, cs, tex) == [pos |-> ps, col |-> cs, tex |-> tex]

\* QuadGl::reset: no batch is carried over
QuadGl_reset == <<>>

\* QuadGl::geometry: the primitives join the open batch when its texture and
\* clip are the ones in force, and open a new batch otherwise
QuadGl_geometry(dcs, tex, clip, prims) ==
    IF dcs # <<>> /\ Last(dcs).texture = tex /\ Last(dcs).clip = clip
    THEN Append(Front(dcs), [Last(dcs) EXCEPT !.prims = @ \o prims])
    ELSE Append(dcs, [texture |-> tex, clip |-> clip, prims |-> prims])

\* QuadGl::draw: one backend draw call per batch, in creation order
QuadGl_draw(dcs) ==
    [i \in 1..Len(dcs) |->
        [op |-> "draw", texture |-> dcs[i].texture, clip |-> dcs[i].clip,
         prims |-> dcs[i].prims]]

ClearCall == [op |-> "clear", texture |-> "None", clip |-> "None", prims |-> <<>>]
PresentCall == [op |-> "present", texture |-> "None", clip |-> "None", prims |-> <<>>]

\* shapes::draw_triangle: one untextured primitive of one color
shapes_draw_triangle(v1, v2, v3, color) ==
    << Tri(<<v1, v2, v3>>, <<color, color, color>>, "None") >>

\* shapes::draw_rectangle: the rectangle as a quad, split 0-1-2 and 2-3-0
shapes_draw_rectangle(x, y, w, h, color) ==
    LET tl == <<x, y>>
        tr == <<x + w, y>>
        br == <<x + w, y + h>>
        bl == <<x, y + h>>
        cs == <<color, color, color>>
    IN  << Tri(<<tl, tr, br>>, cs, "None"), Tri(<<br, bl, tl>>, cs, "None") >>

\* shapes::draw_rectangle_ex2 with a border radius: a polygon fan around the
\* centre of the rectangle.  Each corner arc has border_radius_segments + 1
\* points; a point of an arc is written <<cx, cy, r, k>>: the k-th point of
\* the arc of radius r around (cx, cy).
shapes_draw_rectangle_ex2(x, y, w, h, params) ==
    LET r == params.border_radius
        n == params.border_radius_segments
        centre == <<x + w \div 2, y + h \div 2>>
        arcs == << <<x + r, y + r>>, <<x + w - r, y + r>>,
                   <<x + w - r, y + h - r>>, <<x + r, y + h - r>> >>
        total == 4 * (n + 1)
        P(j) == LET a == arcs[j \div (n + 1) + 1]
                IN  <<a[1], a[2], r, j % (n + 1)>>
        cs == <<params.color, params.color, params.color>>
    IN  [j \in 1..total |-> Tri(<<centre, P(j - 1), P(j % total)>>, cs, "None")]

\* text::draw_text_ex: one quad per glyph run, textured from the font atlas.
\* The formatted blocks drawn here hold one glyph run of GlyphSize pixels.
GlyphSize == <<8, 8>>
text_draw_text_ex(x, y, color) ==
    LET tl == <<x, y>>
        tr == <<x + GlyphSize[1], y>>
        br == <<x + GlyphSize[1], y + GlyphSize[2]>>
        bl == <<x, y + GlyphSize[2]>>
        cs == <<color, color, color>>
    IN  << Tri(<<tl, tr, br>>, cs, "atlas"), Tri(<<br, bl, tl>>, cs, "atlas") >>

(* ------------------------------ Graphics2D ---------------------------- *)

\* Graphics2D::draw_triangle
draw_triangle(vp, color) == shapes_draw_triangle(vp[1], vp[2], vp[3], color)

\* Graphics2D::draw_triangle_three_color: the body is empty
draw_triangle_three_color(vp, vc) == <<>>

\* Graphics2D::draw_quad_four_color
draw_quad_four_color(vp, vc) ==
    draw_triangle_three_color(<<vp[1], vp[2], vp[3]>>, <<vc[1], vc[2], vc[3]>>)
    \o draw_triangle_three_color(<<vp[3], vp[4], vp[1]>>, <<vc[3], vc[4], vc[1]>>)

\* Graphics2D::draw_quad
draw_quad(vp, color) == draw_quad_four_color(vp, <<color, color, color, color>>)

\* Graphics2D::draw_rectangle; rect is <<top_left, bottom_right>>
draw_rectangle(rect, color) ==
    shapes_draw_rectangle(rect[1][1], rect[1][2],
                          rect[2][1] - rect[1][1], rect[2][2] - rect[1][2], color)

\* Graphics2D::draw_rounded_rectangle; round_rect is [rect, radius].  The
\* radius passed on is the literal 8.0 (round_rect.radius is commented out),
\* the number of segments the literal 20.
draw_rounded_rectangle(round_rect, color) ==
    shapes_draw_rectangle_ex2(
        round_rect.rect[1][1], round_rect.rect[1][2],
        round_rect.rect[2][1] - round_rect.rect[1][1],
        round_rect.rect[2][2] - round_rect.rect[1][2],
        [color |-> color, border_radius |-> 8, border_radius_segments |-> 20])

\* Graphics2D::draw_text
draw_text(position, color) == text_draw_text_ex(position[1], position[2], color)

\* Graphics2D::draw_text_cropped: the same call of text::draw_text_ex;
\* crop_window is not read
draw_text_cropped(position, crop_window, color) ==
    text_draw_text_ex(position[1], position[2], color)

\* Vec2 of the lines drawn here: lengths are in half pixels, so that half a
\* thickness of one pixel is a whole number, and lines are parallel to an
\* axis, so that the unit vector is exact
Sgn(x) == IF x > 0 THEN 1 ELSE IF x < 0 THEN -1 ELSE 0
Vec2_add(a, b) == <<a[1] + b[1], a[2] + b[2]>>
Vec2_sub(a, b) == <<a[1] - b[1], a[2] - b[2]>>
Vec2_mul(a, k) == <<a[1] * k, a[2] * k>>
\* Vec2::normalize: None for the zero vector
Vec2_normalize(v) ==
    IF v = <<0, 0>> THEN [some |-> FALSE, v |-> v]
    ELSE [some |-> TRUE, v |-> <<Sgn(v[1]), Sgn(v[2])>>]
rotate_90_degrees_anticlockwise(v) == <<v[2], -v[1]>>
rotate_90_degrees_clockwise(v) == <<-v[2], v[1]>>

\* Graphics2D::draw_line
draw_line_as_rectangle(start_position, end_position, thickness, color) ==
    shapes_draw_rectangle(start_position[1],
                          start_position[2] - thickness \div 2,
                          end_position[1] - start_position[1], thickness, color)
draw_line(start_position, end_position, thickness, color) ==
    LET gradient_normalized == Vec2_normalize(Vec2_sub(end_position, start_position))
    IN  IF ~gradient_normalized.some THEN <<>>
        ELSE LET gradient_thickness ==
                     Vec2_mul(gradient_normalized.v, thickness \div 2)
                 offset_anticlockwise ==
                     rotate_90_degrees_anticlockwise(gradient_thickness)
                 offset_clockwise ==
                     rotate_90_degrees_clockwise(gradient_thickness)
             IN  draw_quad(<<Vec2_add(start_position, offset_anticlockwise),
                             Vec2_add(end_position, offset_anticlockwise),
                             Vec2_add(end_position, offset_clockwise),
                             Vec2_add(start_position, offset_clockwise)>>,
                           color)

\* Graphics2D::draw_triangle_image_tinted_three_color: the body is panic!()
draw_triangle_image_tinted_three_color(vp, vc, ic, image) ==
    [prims |-> <<>>, result |-> "panic"]

\* Graphics2D::draw_quad_image_tinted_four_color: the triangles 0-1-2 and
\* 2-3-0; the second call is made if the first returns
draw_quad_image_tinted_four_color(vp, vc, ic, image) ==
    LET t1 == draw_triangle_image_tinted_three_color(
                  <<vp[1], vp[2], vp[3]>>, <<vc[1], vc[2], vc[3]>>,
                  <<ic[1], ic[2], ic[3]>>, image)
        t2 == draw_triangle_image_tinted_three_color(
                  <<vp[3], vp[4], vp[1]>>, <<vc[3], vc[4], vc[1]>>,
                  <<ic[3], ic[4], ic[1]>>, image)
    IN  IF t1.result = "panic" THEN t1
        ELSE [prims |-> t1.prims \o t2.prims, result |-> t2.result]

\* the corners of a Rectangle <<top_left, bottom_right>>, clockwise
Corners(rect) ==
    << rect[1], <<rect[2][1], rect[1][2]>>, rect[2], <<rect[1][1], rect[2][2]>> >>

\* Graphics2D::draw_rectangle_image_subset_tinted
draw_rectangle_image_subset_tinted(rect, color, image_coords_normalized, image) ==
    draw_quad_image_tinted_four_color(
        Corners(rect), <<color, color, color, color>>,
        Corners(image_coords_normalized), image)

\* Graphics2D::draw_rectangle_image_tinted
draw_rectangle_image_tinted(rect, color, image) ==
    draw_rectangle_image_subset_tinted(rect, color, << <<0, 0>>, <<1, 1>> >>, image)

\* Graphics2D::draw_rectangle_image
draw_rectangle_image(rect, image) == draw_rectangle_image_tinted(rect, "WHITE", image)

\* Graphics2D::draw_image
draw_image(position, image) ==
    draw_rectangle_image(<<position, Vec2_add(position, image.size)>>, image)

\* Graphics2D::create_image_from_raw_pixels: the body is panic!()
create_image_from_raw_pixels(size, data_len) == "panic"

RectA == << <<0, 0>>, <<10, 10>> >>

\* rounded rectangles of two sizes and two radii
RoundedRects ==
    { [rect |-> << <<0, 0>>, <<40, 40>> >>, radius |-> 8],
      [rect |-> << <<0, 0>>, <<100, 60>> >>, radius |-> 3] }

\* an Image Handle: an identifier of a texture, and its size in pixels
ImageA == [id |-> "imageA", size |-> <<4, 4>>]

\* lines of thickness 1 (in half pixels: 2): (0,10)-(100,10), (10,0)-(10,100)
\* and the zero-length line at (0,10)
LineArgs ==
    { << <<0, 20>>, <<200, 20>> >>, << <<20, 0>>, <<20, 200>> >>,
      << <<0, 20>>, <<0, 20>> >> }

\* positions of a text block that is partly inside RectA, and outside it
TextPositions == { <<6, 6>>, <<20, 20>> }

\* an RGBA pixel buffer for an image or icon: its declared size, and a data
\* length that fits it (4 bytes per pixel) or falls one byte short
PixelSize == <<2, 2>>
DataLens == {16, 15}

\* a call and its arguments: pos holds the positions or the size, col the
\* colors or the data length
Op(name, pos, col) == [name |-> name, pos |-> pos, col |-> col]

\* the calls a handler can make on the Graphics2D given to on_draw
GraphicsOps ==
    {Op("draw_triangle", TriangleA, <<c>>) : c \in Colors}
    \cup {Op("draw_triangle_three_color", TriangleA, <<"RED", "BLUE", "RED">>)}
    \cup {Op("draw_quad", QuadA, <<c>>) : c \in Colors}
    \cup {Op("draw_quad_four_color", QuadA, cs) : cs \in FourColors}
    \cup {Op("draw_rectangle", RectA, <<"RED">>)}
    \cup {Op("draw_text", << <<0, 0>> >>, <<"BLUE">>)}
    \cup {Op("clear_screen", <<>>, <<"BLUE">>)}
    \cup {Op("set_clip", RectA, <<>>), Op("set_clip", <<>>, <<>>)}
    \cup {Op("draw_polygon", TriangleA, <<"RED">>)}
    \cup {Op("draw_line", l, <<"RED", 2>>) : l \in LineArgs}
    \cup {Op("draw_text_cropped", <<p, RectA>>, <<"BLUE">>) : p \in TextPositions}
    \cup {Op("draw_image", << <<0, 0>> >>, <<ImageA>>),
          Op("draw_rectangle_image", RectA, <<ImageA>>),
          Op("draw_rectangle_image_tinted", RectA, <<ImageA, "RED">>)}
    \cup {Op("create_image_from_raw_pixels", PixelSize, <<n>>) : n \in DataLens}
    \cup {Op("draw_rounded_rectangle", rr, <<"RED">>) : rr \in RoundedRects}

\* a drawing call that panics
PanicOps == {Op("draw_polygon", TriangleA, <<"RED">>)}

\* the calls on the control handle, and the few drawing calls that matter to
\* the loop: one that emits, one that panics
LoopOps ==
    {Op("request_redraw", <<>>, <<>>), Op("terminate_loop", <<>>, <<>>),
     Op("draw_triangle", TriangleA, <<"RED">>)} \cup PanicOps

\* the best-effort window actions of the control handle
WindowActionOps ==
    {Op("set_icon_from_rgba_pixels", PixelSize, <<n>>) : n \in DataLens}
    \cup {Op("set_cursor_grab", <<>>, <<>>)}

\* the image-drawing calls: what they emit and how they end
ImageCall(op) ==
    CASE op.name = "draw_image" -> draw_image(op.pos[1], op.col[1])
      [] op.name = "draw_rectangle_image" -> draw_rectangle_image(op.pos, op.col[1])
      [] op.name = "draw_rectangle_image_tinted" ->
             draw_rectangle_image_tinted(op.pos, op.col[2], op.col[1])

ImageOpNames == {"draw_image", "draw_rectangle_image", "draw_rectangle_image_tinted"}

\* the control-handle calls that reach the shared renderer
RendererOps == {Op("create_font_from_bytes", <<>>, <<>>)}

\* every call the handler of a frame makes
FrameOps == GraphicsOps \cup WindowActionOps \cup RendererOps

\* the primitives a drawing call hands to QuadGl
Emit(op) ==
    CASE op.name = "draw_triangle" -> draw_triangle(op.pos, op.col[1])
      [] op.name = "draw_triangle_three_color" ->
             draw_triangle_three_color(op.pos, op.col)
      [] op.name = "draw_quad" -> draw_quad(op.pos, op.col[1])
      [] op.name = "draw_quad_four_color" -> draw_quad_four_color(op.pos, op.col)
      [] op.name = "draw_rectangle" -> draw_rectangle(op.pos, op.col[1])
      [] op.name = "draw_rounded_rectangle" ->
             draw_rounded_rectangle(op.pos, op.col[1])
      [] op.name = "draw_text" -> draw_text(op.pos[1], op.col[1])
      [] op.name = "draw_text_cropped" ->
             draw_text_cropped(op.pos[1], op.pos[2], op.col[1])
      [] op.name = "draw_line" ->
             draw_line(op.pos[1], op.pos[2], op.col[2], op.col[1])
      [] op.name \in ImageOpNames -> ImageCall(op).prims
      [] OTHER -> <<>>

\* GLRenderer::draw_frame takes &mut self for the whole call, callback
\* included: the caller's RefMut of the shared renderer is outstanding while
\* the frame is open
renderer_borrowed == openFrames > 0

\* how a call ends: with a returned Result, by returning nothing, or by a
\* panic (draw_polygon, like the other unimplemented calls, is panic!())
Result(op) ==
    CASE op.name = "draw_polygon" -> "panic"
      [] op.name = "set_cursor_grab" -> set_cursor_grab(TRUE)
      [] op.name = "set_icon_from_rgba_pixels" ->
             set_icon_from_rgba_pixels(op.col[1], op.pos)
      [] op.name = "create_image_from_raw_pixels" ->
             create_image_from_raw_pixels(op.pos, op.col[1])
      [] op.name \in ImageOpNames -> ImageCall(op).result
      [] op.name = "create_font_from_bytes" ->
             create_font_from_bytes(renderer_borrowed)
      [] OTHER -> "unit"

Panics(op) == Result(op) = "panic"

\* Graphics2D::begin_frame: self.gl.reset()
BeginFrameBody(skip) ==
    IF skip
    THEN UNCHANGED <<gl_draw_calls, openFrames>>
    ELSE /\ gl_draw_calls' = QuadGl_reset
         /\ openFrames' = openFrames + 1

begin_frame_skipped == BeginFrameBody(TRUE)
\* a begin_frame after which QuadGl still holds a batch
begin_frame_leaves_batch ==
    /\ gl_draw_calls' = << [texture |-> "None", clip |-> "None",
                            prims |-> shapes_draw_triangle(
                                TriangleA[1], TriangleA[2], TriangleA[3], "RED")] >>
    /\ openFrames' = openFrames + 1
begin_frame == BeginFrameBody(FALSE)

\* Graphics2D::end_frame: self.gl.draw(..), then self.renderer.commit_frame()
EndFrameBody(mode) ==
    /\ gpu' = CASE mode = "draw_then_commit" ->
                      gpu \o QuadGl_draw(gl_draw_calls) \o <<PresentCall>>
                [] mode = "commit_then_draw" ->
                      gpu \o <<PresentCall>> \o QuadGl_draw(gl_draw_calls)
                [] mode = "commit_only" -> gpu \o <<PresentCall>>
    /\ gl_draw_calls' = <<>>
    /\ openFrames' = openFrames - 1

end_frame_commit_first == EndFrameBody("commit_then_draw")
end_frame_no_flush == EndFrameBody("commit_only")
end_frame == EndFrameBody("draw_then_commit")

\* Stage::draw -> DrawingWindowHandler::on_draw -> GLRenderer::draw_frame, up to
\* the call of the user's on_draw.  Stage::draw consults no flag.
draw_begin ==
    /\ loopState = "Running"
    /\ ~panicked
    /\ phase = "draw"
    /\ phase' = "in_frame"
    /\ opCount' = 0
    /\ redrawAtDraw' = redraw_requested
    /\ begin_frame
    /\ lastOp' = NoOp
    /\ lastResult' = "none"
    /\ clipRequested' = NoClip
    /\ Handler("on_draw", <<>>, {})
    /\ ran' = ran \cup {"draw"}
    /\ UNCHANGED <<loopState, inputCount, panicked, windowVars, channelVars,
                   gpu, submitted, drewBefore, startCount, startInfo,
                   resizedThisTick, termBefore, lastInput>>
    /\ qAtStart' = 0
    /\ drained' = 0

\* one call of the user's on_draw, on the helper or on the Graphics2D
DrawOp(ops) ==
    /\ loopState = "Running"
    /\ ~panicked
    /\ phase = "in_frame"
    /\ opCount < MaxOps
    /\ opCount' = opCount + 1
    /\ \E op \in ops :
         LET emitted == Emit(op) IN
         /\ lastOp' = [name |-> op.name, pos |-> op.pos, col |-> op.col,
                       emitted |-> emitted]
         /\ lastResult' = Result(op)
         /\ clipRequested' = IF op.name = "set_clip"
                             THEN [some |-> op.pos # <<>>, rect |-> op.pos]
                             ELSE clipRequested
         /\ panicked' = Panics(op)
         /\ redraw_requested' = IF op.name = "request_redraw"
                                THEN request_redraw(redraw_requested)
                                ELSE redraw_requested
         /\ terminate_requested' = IF op.name = "terminate_loop"
                                   THEN terminate_loop(terminate_requested)
                                   ELSE terminate_requested
         /\ termAt' = IF termAt = "none" /\ op.name = "terminate_loop"
                      THEN "on_draw" ELSE termAt
         /\ gl_draw_calls' = IF emitted = <<>> THEN gl_draw_calls
                             ELSE QuadGl_geometry(gl_draw_calls, emitted[1].tex,
                                                  "None", emitted)
         /\ submitted' = submitted \o emitted
         /\ gpu' = IF op.name = "clear_screen" THEN Append(gpu, ClearCall) ELSE gpu
    /\ UNCHANGED <<loopState, phase, inputCount, windowVars, channelVars,
                   openFrames, drewBefore, lastCb, firstCb, startCount, startInfo,
                   resizedThisTick, redrawAtDraw, termBefore, ran, tickVars>>

\* the user's on_draw returns: draw_frame calls end_frame, the tick is over
draw_end ==
    /\ loopState = "Running"
    /\ ~panicked
    /\ phase = "in_frame"
    /\ phase' = "idle"
    /\ end_frame
    /\ lastOp' = NoOp
    /\ lastResult' = "none"
    /\ clipRequested' = NoClip
    /\ drewBefore' = (drewBefore \/ submitted # <<>>)
    /\ ran' = ran \cup {"present"}
    /\ UNCHANGED <<loopState, inputCount, opCount, panicked, helperVars,
                   windowVars, channelVars, submitted, lastCb, firstCb,
                   startCount, startInfo, resizedThisTick, redrawAtDraw, termBefore,
                   termAt, tickVars>>

\* Window::create_user_event_sender -> WindowQuad::create_user_event_sender,
\* the only way to a sender before run_loop: the body is todo!()
Window_create_user_event_sender ==
    /\ loopState = "Created"
    /\ ~panicked
    /\ lastOp' = [name |-> "Window_create_user_event_sender", pos |-> <<>>,
                  col |-> <<>>, emitted |-> <<>>]
    /\ lastResult' = "panic"
    /\ panicked' = TRUE
    /\ UNCHANGED <<loopState, phase, inputCount, opCount, helperVars, windowVars,
                   channelVars, gl_draw_calls, gpu, submitted, openFrames,
                   clipRequested, drewBefore, histVars, tickVars>>

\* the window is closed: quit_requested_event does not cancel the quit, the
\* backend's loop ends and drops the Stage, and with it the Receiver and the
\* messages still in the channel
backend_quit ==
    /\ loopState = "Running"
    /\ ~panicked
    /\ phase = "idle"
    /\ loopState' = "Stopped"
    /\ user_events' = <<>>
    /\ UNCHANGED <<phase, inputCount, opCount, panicked, helperVars, windowVars,
                   sent, sendResult, delivered, gfxVars, histVars, tickVars>>

\* miniquad::start has returned into run_loop: panic!()
run_loop_return ==
    /\ loopState = "Stopped"
    /\ ~panicked
    /\ panicked' = TRUE
    /\ UNCHANGED <<loopState, phase, inputCount, opCount, helperVars, windowVars,
                   channelVars, gfxVars, histVars, tickVars>>

(* ---------------------------- specifications -------------------------- *)

Init ==
    /\ loopState = "Created"
    /\ phase = "idle"
    /\ inputCount = 0
    /\ opCount = 0
    /\ panicked = FALSE
    /\ redraw_requested = FALSE
    /\ terminate_requested = FALSE
    /\ screen = InitialScreen
    /\ dpi \in DpiScales
    /\ user_events = <<>>
    /\ sent = [p \in Producers |-> 0]
    /\ delivered = <<>>
    /\ gl_draw_calls = <<>>
    /\ gpu = <<>>
    /\ submitted = <<>>
    /\ openFrames = 0
    /\ lastOp = NoOp
    /\ lastResult = "none"
    /\ clipRequested = NoClip
    /\ drewBefore = FALSE
    /\ sendResult = [ret |-> "none", disconnected |-> FALSE]
    /\ lastCb = NoCb
    /\ firstCb = "none"
    /\ startCount = 0
    /\ startInfo = [size |-> <<0, 0>>, scale |-> 0]
    /\ resizedThisTick = FALSE
    /\ redrawAtDraw = FALSE
    /\ termBefore = FALSE
    /\ termAt = "none"
    /\ ran = {}
    /\ qAtStart = 0
    /\ drained = 0
    /\ lastInput = NoInput

\* the event loop with one producer; the handler calls the control handle
\* from every callback and draws with LoopOps
Next ==
    \/ run_loop(HelperCalls)
    \/ TickStart
    \/ resize_event
    \/ key_down_event(LoopKeyCodes, HelperCalls)
    \/ key_up_event(LoopKeyCodes)
    \/ update(HelperCalls)
    \/ draw_begin
    \/ DrawOp(LoopOps)
    \/ draw_end
    \/ send_event("p1")
    \/ Window_create_user_event_sender
    \/ backend_quit
    \/ run_loop_return

Spec == Init /\ [][Next]_vars

\* the channel: every producer thread against the loop's per-tick drain; the
\* handler calls nothing on the control handle, and its on_draw may panic
NextChannel ==
    \/ run_loop(Passive)
    \/ TickStart
    \/ update(Passive)
    \/ draw_begin
    \/ DrawOp(PanicOps)
    \/ draw_end
    \/ \E p \in Producers : send_event(p)

SpecChannel == Init /\ [][NextChannel]_vars

\* the frames of a loop without producers or input; the handler draws with
\* every Graphics2D call and tries the window actions
NextFrame ==
    \/ run_loop(Passive)
    \/ TickStart
    \/ update(Passive)
    \/ draw_begin
    \/ DrawOp(FrameOps)
    \/ draw_end

SpecFrame == Init /\ [][NextFrame]_vars

\* the event adapter: key and mouse-button events of every kind of code,
\* dispatched to a handler that calls nothing on the control handle
NextInput ==
    \/ run_loop(Passive)
    \/ TickStart
    \/ key_down_event(KeyCodes, Passive)
    \/ key_up_event(KeyCodes)
    \/ mouse_button_down_event
    \/ mouse_motion_event
    \/ update(Passive)
    \/ draw_begin
    \/ draw_end

SpecInput == Init /\ [][NextInput]_vars

(* ------------------------------- claims ------------------------------- *)

\* the events of producer p that on_user_event has received, in order
FromProducer(p) == SelectSeq(delivered, LAMBDA e : e.src = p)

\* C1: the events of each producer reach on_user_event in the order in which
\* that producer sent them (its k-th delivered event is the k-th it sent),
\* whatever the interleaving of the producers with the loop's drain.
C1_PerSenderFifo ==
    \A p \in Producers :
        \A i \in 1..Len(FromProducer(p)) : FromProducer(p)[i].n = i

\* C1 witness: events of two producers were delivered interleaved
C1_Witness ==
    /\ Len(delivered) >= 3
    /\ delivered[1].src = "p1"
    /\ delivered[2].src = "p2"
    /\ delivered[3] = [src |-> "p1", n |-> 2]

\* every event a producer has sent
SentEvents == {[src |-> p, n |-> k] : p \in Producers, k \in 1..MaxSend}
              \ {e \in [src : Producers, n : 1..MaxSend] : e.n > sent[e.src]}

\* C2: every event enqueued is either still in the channel or has been given
\* to on_user_event exactly once: the deliveries and the channel's content
\* together are the events sent, each once.
C2_NoLossNoDuplication ==
    LET all == delivered \o user_events IN
    /\ {all[i] : i \in 1..Len(all)} = SentEvents
    /\ Len(all) = Cardinality(SentEvents)

\* C2 witness: every producer has sent all its events and the ticks have
\* drained them all: as many on_user_event calls as events enqueued
C2_Witness ==
    /\ \A p \in Producers : sent[p] = MaxSend
    /\ user_events = <<>>
    /\ Len(delivered) = MaxSend * Cardinality(Producers)

AllPhases == {"update", "draw", "present"}

\* C3 (as claimed): once a tick in which a callback called terminate_loop has
\* completed, the loop is stopped: no handler callback (input, user event or
\* draw) is invoked in any later tick.
C3_LoopStopsAfterTerminate ==
    termBefore => lastCb.name = "none"

\* C4: a tick in which terminate_loop was called is not cut short: when it
\* is over, its user-event drain, its draw tick and its present have all run.
C4_TerminateNotMidTick ==
    (loopState = "Running" /\ phase = "idle" /\ termAt # "none" /\ ran # {})
        => ran = AllPhases

\* C4 witness: on_draw called terminate_loop and drew a triangle; the callback
\* returned, and the frame was flushed and presented in that same tick
C4_Witness ==
    /\ phase = "idle"
    /\ termAt = "on_draw"
    /\ ran = AllPhases
    /\ Len(gpu) = 2
    /\ gpu[1].op = "draw"
    /\ gpu[2] = PresentCall

\* C5 (as claimed): the handler's on_draw runs in a tick only if a redraw was
\* pending when the draw tick began or a resize was dispatched in that tick.
C5_DrawOnlyWhenRequested ==
    phase = "in_frame" => (redrawAtDraw \/ resizedThisTick)

\* C6: on_start is called exactly once, when the loop goes from Created to
\* Running, with the size and DPI scale the backend reported, and it is the
\* first callback the handler receives.
C6_StartOnceAndFirst ==
    /\ startCount <= 1
    /\ loopState = "Created" => (startCount = 0 /\ firstCb = "none")
    /\ loopState = "Running" =>
          /\ startCount = 1
          /\ firstCb = "on_start"
          /\ startInfo = [size |-> InitialScreen, scale |-> dpi]

\* C6 witness: the loop is running and another callback has followed on_start
C6_Witness ==
    /\ loopState = "Running"
    /\ lastCb.name = "on_resize"
    /\ firstCb = "on_start"
    /\ startCount = 1

RECURSIVE Flatten(_)
Flatten(ss) == IF ss = <<>> THEN <<>> ELSE Head(ss) \o Flatten(Tail(ss))

\* the primitives of a sequence of backend calls, in order
PrimsOf(calls) == Flatten([i \in 1..Len(calls) |-> calls[i].prims])

\* C7: when present is issued it is the last backend call of the frame, QuadGl
\* holds nothing back, and the draw calls before it carry every primitive
\* submitted in the frame, in order.
C7_FlushBeforePresent ==
    \A i \in 1..Len(gpu) :
        gpu[i].op = "present" =>
            /\ i = Len(gpu)
            /\ gl_draw_calls = <<>>
            /\ PrimsOf(SubSeq(gpu, 1, i - 1)) = submitted

\* C7 witness: a frame with a clear and several primitives was presented
C7_Witness ==
    /\ phase = "idle"
    /\ Len(gpu) >= 3
    /\ Last(gpu) = PresentCall
    /\ gpu[1] = ClearCall
    /\ Len(submitted) >= 3

\* the draw calls among the backend calls of the frame
DrawCalls == SelectSeq(gpu, LAMBDA c : c.op = "draw")

C9_OneFrameOpen ==
    /\ openFrames \in {0, 1}
    /\ phase = "in_frame" <=> openFrames = 1

\* C9 witness: two earlier ticks have drained an event each, so a frame has
\* been closed, and the handler is drawing in a later frame
C9_Witness ==
    /\ Len(delivered) >= 2
    /\ phase = "in_frame"
    /\ opCount >= 1
    /\ openFrames = 1

\* C10 (as claimed): draw_quad and draw_quad_four_color emit exactly the two
\* primitives (v0,v1,v2)/(c0,c1,c2) and (v2,v3,v0)/(c2,c3,c0), in this order.
C10_QuadEmitsTwoTriangles ==
    lastOp.name \in {"draw_quad", "draw_quad_four_color"} =>
        LET vp == lastOp.pos
            vc == IF lastOp.name = "draw_quad"
                  THEN [i \in 1..4 |-> lastOp.col[1]]
                  ELSE lastOp.col
        IN  lastOp.emitted =
              << Tri(<<vp[1], vp[2], vp[3]>>, <<vc[1], vc[2], vc[3]>>, "None"),
                 Tri(<<vp[3], vp[4], vp[1]>>, <<vc[3], vc[4], vc[1]>>, "None") >>

\* C11 (as claimed): a call of draw_triangle or draw_triangle_three_color in a
\* frame emits exactly one primitive, with the three positions and the three
\* colors given (the one color three times for draw_triangle).
C11_TriangleEmitsOnePrimitive ==
    lastOp.name \in {"draw_triangle", "draw_triangle_three_color"} =>
        LET vc == IF lastOp.name = "draw_triangle"
                  THEN [i \in 1..3 |-> lastOp.col[1]]
                  ELSE lastOp.col
        IN  lastOp.emitted = << Tri(lastOp.pos, vc, "None") >>

\* C12 (as claimed): a send_event call made after the loop has stopped, when
\* the Receiver no longer exists, returns an error to the sender.
C12_SendAfterStopIsError ==
    sendResult.disconnected => sendResult.ret = "Err"

\* C13 (as claimed): Window::create_user_event_sender, called before run_loop,
\* returns a sender (whose events the running loop then delivers).
C13_SenderBeforeRunLoop ==
    (loopState = "Created" /\ lastOp.name = "Window_create_user_event_sender")
        => (lastResult = "Ok" /\ ~panicked)

\* C14 (as claimed): create_image_from_raw_pixels with pixel data whose length
\* is not width * height * 4 (RGBA) returns an error value and does not abort.
C14_ImageLengthMismatchIsError ==
    (lastOp.name = "create_image_from_raw_pixels"
        /\ lastOp.col[1] # lastOp.pos[1] * lastOp.pos[2] * 4)
        => (lastResult = "Err" /\ ~panicked)

\* C15 (as claimed): a best-effort window action ends with a Result and never
\* aborts, and set_icon_from_rgba_pixels with pixel data that does not fit the
\* given dimensions returns an error.
C15_WindowActionTypedError ==
    /\ lastOp.name \in {"set_icon_from_rgba_pixels", "set_cursor_grab"}
          => lastResult \in {"Ok", "Err"}
    /\ (lastOp.name = "set_icon_from_rgba_pixels"
          /\ lastOp.col[1] # lastOp.pos[1] * lastOp.pos[2] * 4)
          => lastResult = "Err"

\* C16 (as claimed): no call the handler makes in on_draw panics through the
\* loop: a frame that was opened is never left open by a panic.
C16_NoUnwindMidFrame ==
    ~(panicked /\ openFrames > 0)

\* C17 (as claimed): once a resize event has been dispatched in a tick, the
\* redraw-pending flag is true, whether or not the handler called
\* request_redraw.
C17_ResizeSetsRedrawPending ==
    resizedThisTick => redraw_requested

\* C18: on_resize receives, for the physical size (w, h) and the DPI scale D,
\* the integers (x, y) with x <= w / D < x + 1 and y <= h / D < y + 1: the
\* quotients truncated toward zero.
C18_ResizeReportsTruncatedLogicalSize ==
    lastCb.name = "on_resize" =>
        \A i \in {1, 2} :
            /\ lastCb.arg[i] * dpi <= screen[i]
            /\ screen[i] < (lastCb.arg[i] + 1) * dpi

\* C18 witness: a resize to 801 x 601 at DPI scale 2, where both quotients
\* have a fraction, was reported as 400 x 300
C18_Witness ==
    /\ lastCb = [name |-> "on_resize", arg |-> <<400, 300>>]
    /\ screen = <<801, 601>>
    /\ dpi = 2

\* a step in which the handler's on_draw calls request_redraw
RequestRedrawCall ==
    /\ phase = "in_frame"
    /\ opCount' = opCount + 1
    /\ lastOp'.name = "request_redraw"

\* C19: the redraw-pending flag is false until the control handle exists; a
\* call of request_redraw leaves it true; and a call made when it is already
\* true changes nothing of the control handle or the window: calling again is
\* the same as having called once.
C19_RequestRedrawIdempotent ==
    [][/\ loopState = "Created" => ~redraw_requested
       /\ RequestRedrawCall =>
            /\ redraw_requested'
            /\ redraw_requested =>
                  UNCHANGED <<helperVars, windowVars, panicked>>
       /\ \A f \in BOOLEAN :
            request_redraw(request_redraw(f)) = request_redraw(f)]_vars

\* C19 witness: request_redraw was called in on_draw when an earlier callback
\* had already set the flag
C19_Witness ==
    /\ phase = "in_frame"
    /\ redrawAtDraw
    /\ lastOp.name = "request_redraw"
    /\ redraw_requested

\* C20: the termination flag is false until the control handle exists, no step
\* makes it false once it is true, and a step makes it true only when a
\* callback of the tick has called terminate_loop.
C20_TerminateMonotonic ==
    [][/\ loopState = "Created" => ~terminate_requested
       /\ terminate_requested => terminate_requested'
       /\ (~terminate_requested /\ terminate_requested') => termAt' # "none"]_vars

\* C20 witness: the flag was set in an earlier tick and is still set after a
\* resize, a second terminate_loop and a request_redraw
C20_Witness ==
    /\ termBefore
    /\ terminate_requested
    /\ resizedThisTick
    /\ phase = "in_frame"
    /\ termAt = "on_draw"
    /\ lastOp.name = "request_redraw"

\* C21 (as claimed): a tick delivers at most the user events that were in the
\* channel when the tick started; an event sent while the tick is in progress
\* is not delivered in that tick.
C21_DrainsOnlyEventsAtTickStart ==
    drained <= qAtStart

\* C22 (as claimed): when the draw phase of a tick begins, every user event
\* that was in the channel at the start of the tick has been delivered.
C22_DrainEmptiesQueue ==
    phase = "draw" => drained >= qAtStart

\* C23: the drain never waits.  With the channel empty, Stage::update can
\* always take its step, and that step invokes no on_user_event, delivers
\* nothing and takes the tick to its draw phase.
C23_DrainNeverBlocks ==
    [][/\ (loopState = "Running" /\ ~panicked /\ phase = "input"
              /\ user_events = <<>>) => ENABLED update(Passive)
       /\ (phase = "input" /\ "update" \in ran' /\ user_events = <<>>) =>
            /\ phase' = "draw"
            /\ delivered' = delivered
            /\ lastCb'.name # "on_user_event"]_vars

\* C23 witness: a tick that started with an empty channel, and in which no
\* event arrived, has reached its draw phase without a delivery
C23_Witness ==
    /\ phase = "draw"
    /\ qAtStart = 0
    /\ drained = 0
    /\ user_events = <<>>
    /\ Len(delivered) >= 1
    /\ lastCb = NoCb

\* backend key codes for which VirtualKeyCode has no code, and the code the
\* mapping falls back to
NoCanonicalEquivalent == {"World1", "World2", "F25", "Unknown"}
FallbackKey == "Wake"

\* C26: the key and mouse-button mappings are total and single-valued: every
\* backend key code maps to a canonical key code and every backend button to a
\* canonical button; the codes without a canonical equivalent all map to the
\* one fallback code (Wake, resp. Other(0)); and the callbacks receive the
\* mapped code.
C26_MappingTotalWithFallback ==
    /\ \A k \in DOMAIN KeyTable : VirtualKeyCode_from(k) \in VirtualKeyCode
    /\ NoCanonicalEquivalent \subseteq DOMAIN KeyTable
    /\ \A k \in NoCanonicalEquivalent : VirtualKeyCode_from(k) = FallbackKey
    /\ \A b \in MouseButtons :
          MouseButton_from(b) \in {"Left", "Right", "Middle", "Other(0)"}
    /\ MouseButton_from("Unknown") = "Other(0)"
    /\ lastInput.kind = "key_down" =>
          /\ lastCb.name = "on_key_down"
          /\ lastCb.arg \in VirtualKeyCode
          /\ lastInput.code \in NoCanonicalEquivalent => lastCb.arg = FallbackKey
    /\ lastInput.kind = "mouse_button_down" =>
          /\ lastCb.name = "on_mouse_button_down"
          /\ lastCb.arg \in {"Left", "Right", "Middle", "Other(0)"}

\* C26 witness: a key-down event with the backend's Unknown code reached
\* on_key_down as the fallback code
C26_Witness ==
    /\ lastInput = [kind |-> "key_down", code |-> "Unknown", pos |-> <<>>]
    /\ lastCb = [name |-> "on_key_down", arg |-> "Wake"]

\* C27 (as claimed): each backend key-down event causes one on_key_down call
\* and each backend key-up event one on_key_up call, with the mapped code.
C27_KeyEventsTranslated ==
    /\ lastInput.kind = "key_down" =>
          lastCb = [name |-> "on_key_down",
                    arg |-> VirtualKeyCode_from(lastInput.code)]
    /\ lastInput.kind = "key_up" =>
          lastCb = [name |-> "on_key_up",
                    arg |-> VirtualKeyCode_from(lastInput.code)]

\* a step in which the handler's on_draw calls draw_line with start = end
ZeroLengthLineCall ==
    /\ phase = "in_frame"
    /\ opCount' = opCount + 1
    /\ lastOp'.name = "draw_line"
    /\ lastOp'.pos[1] = lastOp'.pos[2]

\* C24: draw_line with start equal to end returns without emitting a
\* primitive and without a panic, and leaves the batches, the primitives
\* submitted, the backend calls and the open frame as they were.
C24_ZeroLengthLineIsNoOp ==
    [][ZeroLengthLineCall =>
          /\ lastOp'.emitted = <<>>
          /\ lastResult' = "unit"
          /\ UNCHANGED <<gl_draw_calls, submitted, gpu, openFrames, panicked,
                         clipRequested>>]_vars

\* C24 witness: a zero-length draw_line was made in a frame that already held
\* a batch, and the batch is still there
C24_Witness ==
    /\ phase = "in_frame"
    /\ lastOp.name = "draw_line"
    /\ lastOp.pos[1] = lastOp.pos[2]
    /\ Len(gl_draw_calls) = 1
    /\ Len(submitted) >= 1

\* the positions of the vertices of a sequence of primitives
VerticesOf(prims) == {prims[i].pos[k] : i \in 1..Len(prims), k \in 1..3}

\* C25 (as claimed): draw_line with start different from end emits a quad (two
\* primitives) whose vertices are start and end, each moved by half the
\* thickness to either side of the line; for a horizontal line from (x0, y)
\* to (x1, y) these are the corners of (x0, y - t/2)-(x1, y + t/2).
C25_LineIsExtrudedQuad ==
    (lastOp.name = "draw_line" /\ lastOp.pos[1] # lastOp.pos[2]) =>
        LET a == lastOp.pos[1]
            b == lastOp.pos[2]
            h == lastOp.col[2] \div 2
            n == IF a[2] = b[2] THEN <<0, h>> ELSE <<h, 0>>
        IN  /\ Len(lastOp.emitted) = 2
            /\ VerticesOf(lastOp.emitted) =
                  {Vec2_add(a, n), Vec2_sub(a, n), Vec2_add(b, n), Vec2_sub(b, n)}

\* C28 (as claimed): a primitive submitted after set_clip(Some(rect)) goes to
\* a batch clipped to a rectangle, and one submitted after set_clip(None), or
\* before any set_clip of the frame, to a batch without clip.
C28_SetClipTakesEffect ==
    (phase = "in_frame" /\ lastOp.emitted # <<>>) =>
        (clipRequested.some <=> Last(gl_draw_calls).clip # "None")

\* a position lies within a Rectangle <<top_left, bottom_right>>
Within(v, rect) ==
    /\ rect[1][1] <= v[1] /\ v[1] <= rect[2][1]
    /\ rect[1][2] <= v[2] /\ v[2] <= rect[2][2]

\* C29 (as claimed): draw_text_cropped emits nothing outside crop_window:
\* every vertex of the glyph quads it emits lies within the crop window.
C29_CroppedTextStaysInWindow ==
    lastOp.name = "draw_text_cropped" =>
        \A v \in VerticesOf(lastOp.emitted) : Within(v, lastOp.pos[2])

InputCallbacks == {"on_resize", "on_key_down", "on_mouse_button_down",
                   "on_mouse_move"}

\* C32: the phases of a tick run in the order input dispatch, user-event
\* drain, draw tick, present.  Input callbacks and the dispatch of input run
\* before the drain; on_user_event runs after input and before on_draw, never
\* after it; on_draw runs after the drain; while on_draw is running nothing
\* has been presented; and present comes last, after on_draw has returned.
C32_PhaseOrder ==
    /\ phase = "input" => ran = {}
    /\ lastCb.name \in InputCallbacks => ran = {}
    /\ lastCb.name = "on_user_event" => (ran = {"update"} /\ phase = "draw")
    /\ phase = "draw" => ran = {"update"}
    /\ phase = "in_frame" =>
          /\ ran = {"update", "draw"}
          /\ \A i \in 1..Len(gpu) : gpu[i].op # "present"
    /\ "present" \in ran =>
          /\ ran = AllPhases
          /\ phase = "idle"
          /\ Last(gpu) = PresentCall
          /\ lastCb.name = "on_draw"

\* C32 witness: a tick with a resize, then a user event whose callback called
\* terminate_loop, then an on_draw that drew, then the present
C32_Witness ==
    /\ phase = "idle"
    /\ ran = AllPhases
    /\ resizedThisTick
    /\ termAt = "on_user_event"
    /\ Len(gpu) = 2
    /\ gpu[1].op = "draw"
    /\ gpu[2] = PresentCall

C34_MouseMoveDpiCorrected ==
    lastInput.kind = "mouse_motion" =>
        /\ lastCb.name = "on_mouse_move"
        /\ \A i \in {1, 2} :
              /\ lastCb.arg[i][2] > 0
              /\ lastCb.arg[i][1] * dpi = lastInput.pos[i] * lastCb.arg[i][2]

\* C34 witness: at DPI scale 2 the backend position (3, 5) reached
\* on_mouse_move as (3/2, 5/2)
C34_Witness ==
    /\ dpi = 2
    /\ lastInput.kind = "mouse_motion"
    /\ lastInput.pos = <<3, 5>>
    /\ lastCb = [name |-> "on_mouse_move", arg |-> << <<3, 2>>, <<5, 2>> >>]

\* the points of corner arcs among the vertices of a sequence of primitives
ArcPointsOf(prims) == {v \in VerticesOf(prims) : Len(v) = 4}

\* the triangles of the fan of a rounded rectangle: one per perimeter point,
\* with 20 + 1 points on each of the four corner arcs
FanTriangles == 4 * (20 + 1)

\* C35 (as claimed): draw_rounded_rectangle draws every corner arc with the
\* radius of the rounded rectangle it is given, and emits the same number of
\* triangles whatever the size and the radius of the rectangle.
C35_RoundedRectangleUsesRadius ==
    lastOp.name = "draw_rounded_rectangle" =>
        /\ Len(lastOp.emitted) = FanTriangles
        /\ ArcPointsOf(lastOp.emitted) # {}
        /\ \A v \in ArcPointsOf(lastOp.emitted) : v[3] = lastOp.pos.radius

\* C36 (as claimed): the backend receives the clear and the primitives in
\* call order: when clear_screen has been called, the clear is the backend's
\* last call and every primitive drawn earlier in the frame is in a draw call
\* before it.
C36_ClearKeepsPaintersOrder ==
    (phase = "in_frame" /\ lastOp.name = "clear_screen") =>
        /\ Last(gpu) = ClearCall
        /\ PrimsOf(Front(gpu)) = submitted

\* C37 (as claimed): the draw tick consumes the redraw-pending flag: when a
\* tick is over in which no resize was dispatched and on_draw made no call at
\* all (so none of request_redraw), the flag is false.
C37_RedrawFlagConsumed ==
    (loopState = "Running" /\ phase = "idle" /\ "present" \in ran
        /\ opCount = 0 /\ ~resizedThisTick)
        => ~redraw_requested

\* C38 (as claimed): the window size is reported in one unit: while the
\* screen still has the size it had at on_start, the size on_start was given
\* is the one get_size_pixels returns, and the size on_resize is given is the
\* one get_size_pixels returns for the new screen size.
C38_SizeInOneUnit ==
    /\ (startCount = 1 /\ screen = InitialScreen)
          => startInfo.size = get_size_pixels(screen, dpi)
    /\ lastCb.name = "on_resize" => lastCb.arg = get_size_pixels(screen, dpi)

=============================================================================
